---------------------------- MODULE Spec2Model ----------------------------
(***************************************************************************)
(* The trivia game controller of src/pages/Home.tsx: the React state of    *)
(* the Home component, its four handlers (startGame, submitAnswer,         *)
(* nextQuestion, playAgain), the click handlers of the rendered screens    *)
(* and the requests awaited from the trivia agent.                         *)
(*                                                                         *)
(* A handler that awaits callAIAgent is two steps: the part before the     *)
(* await (one batch of state updates, ending with the request sent) and    *)
(* the continuation after it (one batch of state updates, run when the     *)
(* agent answers).  A nullable value is a sequence of length at most one:  *)
(* Null is <<>> and Some(x) is <<x>>.                                      *)
(***************************************************************************)
EXTENDS Integers, Sequences, FiniteSets, TLC

\* ---------------------------------------------------------------- bounds
\* largest value of the clock read by Date.now()
MaxNow == 2
\* the pending-request list is not allowed to grow beyond this length
MaxInflight == 2

\* the percentages of a final score run from 0 to MaxPercent
MaxPercent == 101

\* ------------------------------------------------------- nullable values
Null == <<>>
Some(x) == <<x>>

\* ------------------------------------------------------------ the types
GameStates == {"setup", "question", "feedback", "game_over"}
Categories == {"Science", "History", "Geography", "Entertainment", "Sports"}
Difficulties == {"Easy", "Medium", "Hard"}

\* the questions an agent may send: one with two options, the second of
\* them the empty string, and one without options
Questions ==
  { [text |-> "2+2?", options |-> <<"A) 4", "">>, correct_answer |-> "A"],
    [text |-> "void", options |-> <<>>, correct_answer |-> "A"] }

\* the feedback and the score an agent may send along: none yet, or those
\* of a first answer that was correct
Verdicts ==
  { [feedback |-> Null,
     score |-> [correct |-> 0, total |-> 0, percentage |-> 0]],
    [feedback |-> Some([is_correct |-> TRUE, message |-> "Correct!",
                        explanation |-> "4"]),
     score |-> [correct |-> 1, total |-> 1, percentage |-> 100]] }

\* the feedback and the score of a wrong answer, with a percentage that is
\* neither the quotient nor within 0..100: the agent computes the score
WrongVerdict ==
  [feedback |-> Some([is_correct |-> FALSE, message |-> "Wrong",
                      explanation |-> "4"]),
   score |-> [correct |-> 1, total |-> 2, percentage |-> 150]]

\* game_state is a string: the three the handlers look for and another one
DeclaredStates == {"question", "feedback", "game_over", "paused"}

TriviaResult(gs, q, v) ==
  [ game_state |-> gs, question |-> q, feedback |-> v.feedback,
    score |-> v.score, commentary |-> "Nice" ]

\* the results an agent may send; the wrong answer comes without a question
TriviaResults ==
  { TriviaResult(gs, q, v) :
      gs \in DeclaredStates,
      q \in {Null} \cup {Some(x) : x \in Questions},
      v \in Verdicts }
  \cup
  { TriviaResult(gs, Null, WrongVerdict) : gs \in DeclaredStates }

\* the response of the agent; result may be missing from it
TriviaResponses ==
  [ status : {"success"}, result : {Null} \cup {Some(r) : r \in TriviaResults} ]

NoResponse == [status |-> "error", result |-> Null]

\* what callAIAgent resolves to: an accepted response, or a failure told by
\* success or by status, with or without an error string
AgentAnswers ==
  [ success : {TRUE}, error : {Null}, response : TriviaResponses ]
  \cup
  [ success : {FALSE}, error : {Null, Some(""), Some("Network error")},
    response : {NoResponse} ]
  \cup
  { [success |-> FALSE, error |-> Null,
     response |-> [status |-> "success", result |-> Null]],
    [success |-> TRUE, error |-> Null, response |-> NoResponse],
    [success |-> TRUE, error |-> Some("Network error"), response |-> NoResponse] }

\* ------------------------------------------------------- JavaScript bits
\* !s for a string | null
Truthy(s) == s # Null /\ s[1] # ""

OrElseNoDefault(a, b) == a

\* a || b for strings
OrElse(a, b) == IF Truthy(a) THEN a ELSE Some(b)

\* `trivia-${Date.now()}`
NewSessionId(t) == <<"trivia-", t>>

StartMessage(cat, diff) ==
  <<"Start a new trivia game. Category: ", cat, ", Difficulty: ", diff,
    ". Give me the first question.">>

AnswerMessage(sel) == <<"My answer is: ", sel>>

NextMessage == <<"Give me the next question">>

\* result.success && result.response.status === 'success'
Accepted(result) == result.success /\ result.response.status = "success"

\* ------------------------------------------------------------- the state
VARIABLES
  gameState,       \* useState<GameState>('setup')
  category,        \* useState<Category>('Science')
  difficulty,      \* useState<Difficulty>('Medium')
  response,        \* useState<TriviaResponse | null>(null)
  selectedAnswer,  \* useState<string | null>(null)
  loading,         \* useState(false)
  error,           \* useState<string | null>(null)
  sessionId,       \* useState<string>('')
  inflight,        \* the calls of callAIAgent that have not resolved yet
  now,             \* the clock behind Date.now()
  issued,          \* history: the session id startGame generated last
  acceptedBy,      \* history: the handler that stored the held response
  last             \* history: the step of a handler taken last

state == <<gameState, category, difficulty, response, selectedAnswer,
           loading, error, sessionId>>

vars == <<gameState, category, difficulty, response, selectedAnswer,
          loading, error, sessionId, inflight, now, issued, acceptedBy, last>>

\* a step of a handler, with whether an error was shown when it was taken
Event(op, kind) == [op |-> op, kind |-> kind, hadError |-> error # Null]

Did(op, kind) == last.op = op /\ last.kind = kind

Init ==
  /\ gameState = "setup"
  /\ category = "Science"
  /\ difficulty = "Medium"
  /\ response = Null
  /\ selectedAnswer = Null
  /\ loading = FALSE
  /\ error = Null
  /\ sessionId = <<>>
  /\ inflight = <<>>
  /\ now = 1
  /\ issued = <<>>
  /\ acceptedBy = "none"
  /\ last = [op |-> "init", kind |-> "local", hadError |-> FALSE]

\* ------------------------------------------------------------ rendering
\* response?.result
HasResult == response # Null /\ response[1].result # Null

Result == response[1].result[1]

\* the chain of `if (gameState === ...)` of the render function
Screen ==
  IF gameState = "setup" THEN "setup"
  ELSE IF gameState = "question" /\ HasResult THEN "question"
  ELSE IF gameState = "feedback" /\ HasResult THEN "feedback"
  ELSE IF gameState = "game_over" /\ HasResult THEN "game_over"
  ELSE "fallback"

\* question?.options of the question screen
Options == IF Result.question = Null THEN <<>> ELSE Result.question[1].options

StartGameEnabledWhileLoading == Screen = "setup"

\* Start Game button: disabled={loading}
StartGameEnabled == Screen = "setup" /\ ~loading

\* answer options: disabled={loading}
AnswerOptionEnabled == Screen = "question" /\ ~loading

\* Submit Answer button: disabled={!selectedAnswer || loading}; the
\* selection half of it repeats the first line of submitAnswer
SubmitAnswerEnabled == Screen = "question" /\ ~loading

\* Submit Answer button: disabled={!selectedAnswer || loading}
SubmitButtonEnabled == Screen = "question" /\ Truthy(selectedAnswer) /\ ~loading

\* Next Question button: disabled={loading}
NextQuestionEnabled == Screen = "feedback" /\ ~loading

\* Play Again button: never disabled
PlayAgainEnabled == Screen = "game_over"

\* Score: {score.correct}/{score.total}
ScoreText == <<Result.score.correct, "/", Result.score.total>>

\* {score.percentage}%
PercentText == <<Result.score.percentage, "%">>

\* the colour of the feedback box: emerald is the green of the theme
FeedbackColour == IF Result.feedback[1].is_correct THEN "emerald" ELSE "rose"

PerformanceMessageStrict(p) ==
  IF p > 80 THEN "Outstanding Performance!"
  ELSE IF p > 60 THEN "Good Job!"
  ELSE IF p > 40 THEN "Nice Try!"
  ELSE "Keep Practicing!"

PerformanceMessageLowestFirst(p) ==
  IF p >= 40 THEN "Nice Try!"
  ELSE IF p >= 60 THEN "Good Job!"
  ELSE IF p >= 80 THEN "Outstanding Performance!"
  ELSE "Keep Practicing!"

\* performanceMessage of the game over screen
PerformanceMessage(p) ==
  IF p >= 80 THEN "Outstanding Performance!"
  ELSE IF p >= 60 THEN "Good Job!"
  ELSE IF p >= 40 THEN "Nice Try!"
  ELSE "Keep Practicing!"

\* -------------------------------------------------------------- requests
Request(op, message, sid) == [op |-> op, message |-> message, session_id |-> sid]

Remove(seq, i) == SubSeq(seq, 1, i - 1) \o SubSeq(seq, i + 1, Len(seq))

\* callAIAgent(message, AGENT_ID, { session_id }) up to the await
Send(op, message, sid) ==
  /\ Len(inflight) < MaxInflight
  /\ inflight' = Append(inflight, Request(op, message, sid))

\* ------------------------------------------------------ setup screen
SetCategory(cat) ==
  /\ Screen = "setup"
  /\ category' = cat
  /\ UNCHANGED last
  /\ UNCHANGED <<gameState, difficulty, response, selectedAnswer, loading,
                 error, sessionId, inflight, now, acceptedBy>>
  /\ UNCHANGED issued

SetDifficulty(diff) ==
  /\ Screen = "setup"
  /\ difficulty' = diff
  /\ UNCHANGED last
  /\ UNCHANGED <<gameState, category, response, selectedAnswer, loading,
                 error, sessionId, inflight, now, acceptedBy>>
  /\ UNCHANGED issued

\* ------------------------------------------------------------ startGame
StartGameStateAsDeclared(declared) ==
  IF declared \in GameStates THEN declared ELSE gameState

\* the view state startGame moves to for the declared game_state
StartGameState(declared) ==
  IF declared = "question" THEN "question"
  ELSE IF declared = "feedback" THEN "feedback"
  ELSE gameState

\* startGame up to the await
StartGame ==
  /\ StartGameEnabled
  /\ loading' = TRUE
  /\ error' = Null
  /\ sessionId' = NewSessionId(now)
  /\ issued' = NewSessionId(now)
  /\ Send("startGame", StartMessage(category, difficulty), NewSessionId(now))
  /\ last' = Event("startGame", "dispatch")
  /\ UNCHANGED <<gameState, category, difficulty, response, selectedAnswer,
                 now, acceptedBy>>

StartGameResumeStuck(result) ==
  IF Accepted(result)
  THEN /\ loading' = FALSE
       /\ response' = Some(result.response)
       /\ acceptedBy' = "startGame"
       /\ error' = error
       /\ IF result.response.result = Null
          THEN /\ last' = Event("startGame", "threw")
               /\ UNCHANGED <<gameState, selectedAnswer>>
          ELSE /\ gameState' = StartGameState(result.response.result[1].game_state)
               /\ selectedAnswer' = Null
               /\ last' = Event("startGame", "success")
  ELSE /\ error' = OrElse(result.error, "Failed to start game")
       /\ last' = Event("startGame", "failure")
       /\ UNCHANGED <<gameState, response, selectedAnswer, acceptedBy, loading>>

\* startGame after the await, the agent having answered result
StartGameResume(result) ==
  /\ loading' = FALSE
  /\ IF Accepted(result)
     THEN /\ response' = Some(result.response)
          /\ acceptedBy' = "startGame"
          /\ error' = error
          /\ IF result.response.result = Null
             THEN \* reading result.game_state throws: the handler ends here
                  /\ last' = Event("startGame", "threw")
                  /\ UNCHANGED <<gameState, selectedAnswer>>
             ELSE /\ gameState' = StartGameState(result.response.result[1].game_state)
                  /\ selectedAnswer' = Null
                  /\ last' = Event("startGame", "success")
     ELSE /\ error' = OrElse(result.error, "Failed to start game")
          /\ last' = Event("startGame", "failure")
          /\ UNCHANGED <<gameState, response, selectedAnswer, acceptedBy>>

\* the call of startGame resolves to result and the handler goes on
StartGameDoneWith(result) ==
  \E i \in DOMAIN inflight :
    /\ inflight[i].op = "startGame"
    /\ inflight' = Remove(inflight, i)
    /\ StartGameResume(result)
    /\ UNCHANGED <<category, difficulty, sessionId, now, issued>>

\* the call of some outstanding startGame resolves
StartGameDone ==
  /\ \E i \in DOMAIN inflight : inflight[i].op = "startGame"
  /\ \E result \in AgentAnswers : StartGameDoneWith(result)

\* ------------------------------------------------------ question screen
SelectAnswer(option) ==
  /\ AnswerOptionEnabled
  /\ \E k \in DOMAIN Options : Options[k] = option
  /\ selectedAnswer' = Some(option)
  /\ UNCHANGED last
  /\ UNCHANGED <<gameState, category, difficulty, response, loading, error,
                 sessionId, inflight, now, acceptedBy>>
  /\ UNCHANGED issued

\* --------------------------------------------------------- submitAnswer
SubmitAnswerNoReturn ==
  /\ SubmitAnswerEnabled
  /\ loading' = TRUE
  /\ error' = Null
  /\ Send("submitAnswer",
          AnswerMessage(IF selectedAnswer = Null THEN "null" ELSE selectedAnswer[1]),
          sessionId)
  /\ last' = Event("submitAnswer", "dispatch")
  /\ UNCHANGED <<gameState, category, difficulty, response, selectedAnswer,
                 sessionId, now, acceptedBy>>
  /\ UNCHANGED issued

\* submitAnswer up to the await
SubmitAnswer ==
  /\ SubmitAnswerEnabled
  /\ IF ~Truthy(selectedAnswer)
     THEN /\ last' = Event("submitAnswer", "noop")
          /\ UNCHANGED <<gameState, category, difficulty, response,
                         selectedAnswer, loading, error, sessionId, inflight,
                         now, acceptedBy>>
     ELSE /\ loading' = TRUE
          /\ error' = Null
          /\ Send("submitAnswer", AnswerMessage(selectedAnswer[1]), sessionId)
          /\ last' = Event("submitAnswer", "dispatch")
          /\ UNCHANGED <<gameState, category, difficulty, response,
                         selectedAnswer, sessionId, now, acceptedBy>>
  /\ UNCHANGED issued

SubmitAnswerResumeClearing(result) ==
  /\ loading' = FALSE
  /\ IF Accepted(result)
     THEN /\ response' = Some(result.response)
          /\ acceptedBy' = "submitAnswer"
          /\ gameState' = "feedback"
          /\ selectedAnswer' = Null
          /\ last' = Event("submitAnswer", "success")
          /\ UNCHANGED error
     ELSE /\ error' = OrElse(result.error, "Failed to submit answer")
          /\ last' = Event("submitAnswer", "failure")
          /\ UNCHANGED <<gameState, response, selectedAnswer, acceptedBy>>

SubmitAnswerResumeStillLoading(result) ==
  IF Accepted(result)
  THEN /\ loading' = FALSE
       /\ response' = Some(result.response)
       /\ acceptedBy' = "submitAnswer"
       /\ gameState' = "feedback"
       /\ last' = Event("submitAnswer", "success")
       /\ UNCHANGED <<error, selectedAnswer>>
  ELSE /\ error' = OrElse(result.error, "Failed to submit answer")
       /\ last' = Event("submitAnswer", "failure")
       /\ UNCHANGED <<gameState, response, selectedAnswer, acceptedBy, loading>>

SubmitAnswerResumeRecomputing(result) ==
  /\ loading' = FALSE
  /\ IF Accepted(result)
     THEN /\ response' =
               IF result.response.result = Null THEN Some(result.response)
               ELSE LET r == result.response.result[1]
                        pct == IF r.score.total = 0 THEN 0
                               ELSE (200 * r.score.correct + r.score.total)
                                      \div (2 * r.score.total)
                    IN Some([result.response EXCEPT
                               !.result = Some([r EXCEPT !.score.percentage = pct])])
          /\ acceptedBy' = "submitAnswer"
          /\ gameState' = "feedback"
          /\ last' = Event("submitAnswer", "success")
          /\ UNCHANGED <<error, selectedAnswer>>
     ELSE /\ error' = OrElse(result.error, "Failed to submit answer")
          /\ last' = Event("submitAnswer", "failure")
          /\ UNCHANGED <<gameState, response, selectedAnswer, acceptedBy>>

SubmitAnswerResumeAsDeclared(result) ==
  /\ loading' = FALSE
  /\ IF Accepted(result)
     THEN /\ response' = Some(result.response)
          /\ acceptedBy' = "submitAnswer"
          /\ gameState' = IF result.response.result = Null THEN gameState
                          ELSE IF result.response.result[1].game_state \in GameStates
                               THEN result.response.result[1].game_state
                               ELSE gameState
          /\ last' = Event("submitAnswer", "success")
          /\ UNCHANGED <<error, selectedAnswer>>
     ELSE /\ error' = OrElse(result.error, "Failed to submit answer")
          /\ last' = Event("submitAnswer", "failure")
          /\ UNCHANGED <<gameState, response, selectedAnswer, acceptedBy>>

\* submitAnswer after the await
SubmitAnswerResume(result) ==
  /\ loading' = FALSE
  /\ IF Accepted(result)
     THEN /\ response' = Some(result.response)
          /\ acceptedBy' = "submitAnswer"
          /\ gameState' = "feedback"
          /\ last' = Event("submitAnswer", "success")
          /\ UNCHANGED <<error, selectedAnswer>>
     ELSE /\ error' = OrElse(result.error, "Failed to submit answer")
          /\ last' = Event("submitAnswer", "failure")
          /\ UNCHANGED <<gameState, response, selectedAnswer, acceptedBy>>

\* the call of submitAnswer resolves to result and the handler goes on
SubmitAnswerDoneWith(result) ==
  \E i \in DOMAIN inflight :
    /\ inflight[i].op = "submitAnswer"
    /\ inflight' = Remove(inflight, i)
    /\ SubmitAnswerResume(result)
    /\ UNCHANGED <<category, difficulty, sessionId, now, issued>>

\* the call of some outstanding submitAnswer resolves
SubmitAnswerDone ==
  /\ \E i \in DOMAIN inflight : inflight[i].op = "submitAnswer"
  /\ \E result \in AgentAnswers : SubmitAnswerDoneWith(result)

\* --------------------------------------------------------- nextQuestion
NextQuestionStateAsDeclared(declared) == declared

\* the view state nextQuestion moves to for the declared game_state
NextQuestionState(declared) ==
  IF declared = "question" THEN "question"
  ELSE IF declared = "game_over" THEN "game_over"
  ELSE gameState

NextQuestionKeepingSelection ==
  /\ NextQuestionEnabled
  /\ loading' = TRUE
  /\ error' = Null
  /\ Send("nextQuestion", NextMessage, sessionId)
  /\ last' = Event("nextQuestion", "dispatch")
  /\ UNCHANGED <<gameState, category, difficulty, response, sessionId, now,
                 acceptedBy, selectedAnswer>>
  /\ UNCHANGED issued

NextQuestionKeepingError ==
  /\ NextQuestionEnabled
  /\ loading' = TRUE
  /\ selectedAnswer' = Null
  /\ Send("nextQuestion", NextMessage, sessionId)
  /\ last' = Event("nextQuestion", "dispatch")
  /\ UNCHANGED <<gameState, category, difficulty, response, sessionId, now,
                 acceptedBy, error>>
  /\ UNCHANGED issued

\* nextQuestion up to the await
NextQuestion ==
  /\ NextQuestionEnabled
  /\ loading' = TRUE
  /\ error' = Null
  /\ selectedAnswer' = Null
  /\ Send("nextQuestion", NextMessage, sessionId)
  /\ last' = Event("nextQuestion", "dispatch")
  /\ UNCHANGED <<gameState, category, difficulty, response, sessionId, now,
                 acceptedBy>>
  /\ UNCHANGED issued

NextQuestionResumeDroppingResponse(result) ==
  /\ loading' = FALSE
  /\ IF Accepted(result)
     THEN /\ response' = Some(result.response)
          /\ acceptedBy' = "nextQuestion"
          /\ UNCHANGED <<error, selectedAnswer>>
          /\ IF result.response.result = Null
             THEN /\ last' = Event("nextQuestion", "threw")
                  /\ UNCHANGED gameState
             ELSE /\ gameState' = NextQuestionState(result.response.result[1].game_state)
                  /\ last' = Event("nextQuestion", "success")
     ELSE /\ error' = OrElse(result.error, "Failed to get next question")
          /\ response' = Null
          /\ last' = Event("nextQuestion", "failure")
          /\ UNCHANGED <<gameState, selectedAnswer, acceptedBy>>

NextQuestionResumeKeepingResponse(result) ==
  /\ loading' = FALSE
  /\ IF Accepted(result)
     THEN /\ UNCHANGED <<error, selectedAnswer, response, acceptedBy>>
          /\ IF result.response.result = Null
             THEN /\ last' = Event("nextQuestion", "threw")
                  /\ UNCHANGED gameState
             ELSE /\ gameState' = NextQuestionState(result.response.result[1].game_state)
                  /\ last' = Event("nextQuestion", "success")
     ELSE /\ error' = OrElse(result.error, "Failed to get next question")
          /\ last' = Event("nextQuestion", "failure")
          /\ UNCHANGED <<gameState, response, selectedAnswer, acceptedBy>>

\* nextQuestion after the await
NextQuestionResume(result) ==
  /\ loading' = FALSE
  /\ IF Accepted(result)
     THEN /\ response' = Some(result.response)
          /\ acceptedBy' = "nextQuestion"
          /\ UNCHANGED <<error, selectedAnswer>>
          /\ IF result.response.result = Null
             THEN \* reading result.game_state throws: the handler ends here
                  /\ last' = Event("nextQuestion", "threw")
                  /\ UNCHANGED gameState
             ELSE /\ gameState' = NextQuestionState(result.response.result[1].game_state)
                  /\ last' = Event("nextQuestion", "success")
     ELSE /\ error' = OrElse(result.error, "Failed to get next question")
          /\ last' = Event("nextQuestion", "failure")
          /\ UNCHANGED <<gameState, response, selectedAnswer, acceptedBy>>

\* the call of nextQuestion resolves to result and the handler goes on
NextQuestionDoneWith(result) ==
  \E i \in DOMAIN inflight :
    /\ inflight[i].op = "nextQuestion"
    /\ inflight' = Remove(inflight, i)
    /\ NextQuestionResume(result)
    /\ UNCHANGED <<category, difficulty, sessionId, now, issued>>

NextQuestionDoneRetrying ==
  \E result \in AgentAnswers : \E i \in DOMAIN inflight :
    /\ inflight[i].op = "nextQuestion"
    /\ inflight' = IF Accepted(result) THEN Remove(inflight, i) ELSE inflight
    /\ NextQuestionResume(result)
    /\ UNCHANGED <<category, difficulty, sessionId, now, issued>>

\* the call of some outstanding nextQuestion resolves
NextQuestionDone ==
  /\ \E i \in DOMAIN inflight : inflight[i].op = "nextQuestion"
  /\ \E result \in AgentAnswers : NextQuestionDoneWith(result)

\* ------------------------------------------------------------ playAgain
PlayAgainKeepingSession ==
  /\ PlayAgainEnabled
  /\ gameState' = "setup"
  /\ response' = Null
  /\ selectedAnswer' = Null
  /\ acceptedBy' = "none"
  /\ last' = Event("playAgain", "local")
  /\ UNCHANGED <<category, difficulty, loading, error, inflight, now, sessionId>>
  /\ UNCHANGED issued

PlayAgainResettingChoice ==
  /\ PlayAgainEnabled
  /\ gameState' = "setup"
  /\ category' = "Science"
  /\ difficulty' = "Medium"
  /\ response' = Null
  /\ selectedAnswer' = Null
  /\ sessionId' = <<>>
  /\ acceptedBy' = "none"
  /\ last' = Event("playAgain", "local")
  /\ UNCHANGED <<loading, error, inflight, now>>
  /\ UNCHANGED issued

PlayAgain ==
  /\ PlayAgainEnabled
  /\ gameState' = "setup"
  /\ response' = Null
  /\ selectedAnswer' = Null
  /\ sessionId' = <<>>
  /\ acceptedBy' = "none"
  /\ last' = Event("playAgain", "local")
  /\ UNCHANGED <<category, difficulty, loading, error, inflight, now>>
  /\ UNCHANGED issued

\* ------------------------------------------------------ second variant
\* The file holds a second Home with another theme. Its definitions are
\* written over the same variables: SecondX is what X of the second Home
\* does in a state, so that the two can be compared state by state.

\* `trivia-${Date.now()}`
SecondNewSessionId(t) == <<"trivia-", t>>

SecondStartMessage(cat, diff) ==
  <<"Start a new trivia game. Category: ", cat, ", Difficulty: ", diff,
    ". Give me the first question.">>

SecondAnswerMessage(sel) == <<"My answer is: ", sel>>

SecondNextMessage == <<"Give me the next question">>

\* result.success && result.response.status === 'success'
SecondAccepted(result) == result.success /\ result.response.status = "success"

SecondInit ==
  /\ gameState = "setup"
  /\ category = "Science"
  /\ difficulty = "Medium"
  /\ response = Null
  /\ selectedAnswer = Null
  /\ loading = FALSE
  /\ error = Null
  /\ sessionId = <<>>
  /\ inflight = <<>>
  /\ now = 1
  /\ issued = <<>>
  /\ acceptedBy = "none"
  /\ last = [op |-> "init", kind |-> "local", hadError |-> FALSE]

\* response?.result
SecondHasResult == response # Null /\ response[1].result # Null

SecondResult == response[1].result[1]

\* the chain of `if (gameState === ...)` of the render function
SecondScreen ==
  IF gameState = "setup" THEN "setup"
  ELSE IF gameState = "question" /\ SecondHasResult THEN "question"
  ELSE IF gameState = "feedback" /\ SecondHasResult THEN "feedback"
  ELSE IF gameState = "game_over" /\ SecondHasResult THEN "game_over"
  ELSE "fallback"

\* question?.options of the question screen
SecondOptions == IF SecondResult.question = Null THEN <<>> ELSE SecondResult.question[1].options

\* Start Game button: disabled={loading}
SecondStartGameEnabled == SecondScreen = "setup" /\ ~loading

\* answer options: disabled={loading}
SecondAnswerOptionEnabled == SecondScreen = "question" /\ ~loading

\* Submit Answer button: disabled={!selectedAnswer || loading}; the
\* selection half of it repeats the first line of submitAnswer
SecondSubmitAnswerEnabled == SecondScreen = "question" /\ ~loading

\* Submit Answer button: disabled={!selectedAnswer || loading}
SecondSubmitButtonEnabled == SecondScreen = "question" /\ Truthy(selectedAnswer) /\ ~loading

\* Next Question button: disabled={loading}
SecondNextQuestionEnabled == SecondScreen = "feedback" /\ ~loading

\* Play Again button: never disabled
SecondPlayAgainEnabled == SecondScreen = "game_over"

SecondSetCategory(cat) ==
  /\ SecondScreen = "setup"
  /\ category' = cat
  /\ UNCHANGED last
  /\ UNCHANGED <<gameState, difficulty, response, selectedAnswer, loading,
                 error, sessionId, inflight, now, acceptedBy>>
  /\ UNCHANGED issued

SecondSetDifficulty(diff) ==
  /\ SecondScreen = "setup"
  /\ difficulty' = diff
  /\ UNCHANGED last
  /\ UNCHANGED <<gameState, category, response, selectedAnswer, loading,
                 error, sessionId, inflight, now, acceptedBy>>
  /\ UNCHANGED issued

\* the view state startGame moves to for the declared game_state
SecondStartGameState(declared) ==
  IF declared = "question" THEN "question"
  ELSE IF declared = "feedback" THEN "feedback"
  ELSE gameState

\* startGame up to the await
SecondStartGame ==
  /\ SecondStartGameEnabled
  /\ loading' = TRUE
  /\ error' = Null
  /\ sessionId' = SecondNewSessionId(now)
  /\ issued' = SecondNewSessionId(now)
  /\ Send("startGame", SecondStartMessage(category, difficulty), SecondNewSessionId(now))
  /\ last' = Event("startGame", "dispatch")
  /\ UNCHANGED <<gameState, category, difficulty, response, selectedAnswer,
                 now, acceptedBy>>

\* startGame after the await, the agent having answered result
SecondStartGameResume(result) ==
  /\ loading' = FALSE
  /\ IF SecondAccepted(result)
     THEN /\ response' = Some(result.response)
          /\ acceptedBy' = "startGame"
          /\ error' = error
          /\ IF result.response.result = Null
             THEN \* reading result.game_state throws: the handler ends here
                  /\ last' = Event("startGame", "threw")
                  /\ UNCHANGED <<gameState, selectedAnswer>>
             ELSE /\ gameState' = SecondStartGameState(result.response.result[1].game_state)
                  /\ selectedAnswer' = Null
                  /\ last' = Event("startGame", "success")
     ELSE /\ error' = OrElse(result.error, "Failed to start game")
          /\ last' = Event("startGame", "failure")
          /\ UNCHANGED <<gameState, response, selectedAnswer, acceptedBy>>

\* the call of startGame resolves to result and the handler goes on
SecondStartGameDoneWith(result) ==
  \E i \in DOMAIN inflight :
    /\ inflight[i].op = "startGame"
    /\ inflight' = Remove(inflight, i)
    /\ SecondStartGameResume(result)
    /\ UNCHANGED <<category, difficulty, sessionId, now, issued>>

SecondSelectAnswer(option) ==
  /\ SecondAnswerOptionEnabled
  /\ \E k \in DOMAIN SecondOptions : SecondOptions[k] = option
  /\ selectedAnswer' = Some(option)
  /\ UNCHANGED last
  /\ UNCHANGED <<gameState, category, difficulty, response, loading, error,
                 sessionId, inflight, now, acceptedBy>>
  /\ UNCHANGED issued

\* submitAnswer up to the await
SecondSubmitAnswer ==
  /\ SecondSubmitAnswerEnabled
  /\ IF ~Truthy(selectedAnswer)
     THEN /\ last' = Event("submitAnswer", "noop")
          /\ UNCHANGED <<gameState, category, difficulty, response,
                         selectedAnswer, loading, error, sessionId, inflight,
                         now, acceptedBy>>
     ELSE /\ loading' = TRUE
          /\ error' = Null
          /\ Send("submitAnswer", SecondAnswerMessage(selectedAnswer[1]), sessionId)
          /\ last' = Event("submitAnswer", "dispatch")
          /\ UNCHANGED <<gameState, category, difficulty, response,
                         selectedAnswer, sessionId, now, acceptedBy>>
  /\ UNCHANGED issued

SecondSubmitAnswerResumeAsDeclared(result) ==
  /\ loading' = FALSE
  /\ IF SecondAccepted(result)
     THEN /\ response' = Some(result.response)
          /\ acceptedBy' = "submitAnswer"
          /\ gameState' = IF result.response.result = Null THEN gameState
                          ELSE IF result.response.result[1].game_state \in GameStates
                               THEN result.response.result[1].game_state
                               ELSE gameState
          /\ last' = Event("submitAnswer", "success")
          /\ UNCHANGED <<error, selectedAnswer>>
     ELSE /\ error' = OrElse(result.error, "Failed to submit answer")
          /\ last' = Event("submitAnswer", "failure")
          /\ UNCHANGED <<gameState, response, selectedAnswer, acceptedBy>>

\* submitAnswer after the await
SecondSubmitAnswerResume(result) ==
  /\ loading' = FALSE
  /\ IF SecondAccepted(result)
     THEN /\ response' = Some(result.response)
          /\ acceptedBy' = "submitAnswer"
          /\ gameState' = "feedback"
          /\ last' = Event("submitAnswer", "success")
          /\ UNCHANGED <<error, selectedAnswer>>
     ELSE /\ error' = OrElse(result.error, "Failed to submit answer")
          /\ last' = Event("submitAnswer", "failure")
          /\ UNCHANGED <<gameState, response, selectedAnswer, acceptedBy>>

\* the call of submitAnswer resolves to result and the handler goes on
SecondSubmitAnswerDoneWith(result) ==
  \E i \in DOMAIN inflight :
    /\ inflight[i].op = "submitAnswer"
    /\ inflight' = Remove(inflight, i)
    /\ SecondSubmitAnswerResume(result)
    /\ UNCHANGED <<category, difficulty, sessionId, now, issued>>

\* the view state nextQuestion moves to for the declared game_state
SecondNextQuestionState(declared) ==
  IF declared = "question" THEN "question"
  ELSE IF declared = "game_over" THEN "game_over"
  ELSE gameState

\* nextQuestion up to the await
SecondNextQuestion ==
  /\ SecondNextQuestionEnabled
  /\ loading' = TRUE
  /\ error' = Null
  /\ selectedAnswer' = Null
  /\ Send("nextQuestion", SecondNextMessage, sessionId)
  /\ last' = Event("nextQuestion", "dispatch")
  /\ UNCHANGED <<gameState, category, difficulty, response, sessionId, now,
                 acceptedBy>>
  /\ UNCHANGED issued

\* nextQuestion after the await
SecondNextQuestionResume(result) ==
  /\ loading' = FALSE
  /\ IF SecondAccepted(result)
     THEN /\ response' = Some(result.response)
          /\ acceptedBy' = "nextQuestion"
          /\ UNCHANGED <<error, selectedAnswer>>
          /\ IF result.response.result = Null
             THEN \* reading result.game_state throws: the handler ends here
                  /\ last' = Event("nextQuestion", "threw")
                  /\ UNCHANGED gameState
             ELSE /\ gameState' = SecondNextQuestionState(result.response.result[1].game_state)
                  /\ last' = Event("nextQuestion", "success")
     ELSE /\ error' = OrElse(result.error, "Failed to get next question")
          /\ last' = Event("nextQuestion", "failure")
          /\ UNCHANGED <<gameState, response, selectedAnswer, acceptedBy>>

\* the call of nextQuestion resolves to result and the handler goes on
SecondNextQuestionDoneWith(result) ==
  \E i \in DOMAIN inflight :
    /\ inflight[i].op = "nextQuestion"
    /\ inflight' = Remove(inflight, i)
    /\ SecondNextQuestionResume(result)
    /\ UNCHANGED <<category, difficulty, sessionId, now, issued>>

SecondPlayAgain ==
  /\ SecondPlayAgainEnabled
  /\ gameState' = "setup"
  /\ response' = Null
  /\ selectedAnswer' = Null
  /\ sessionId' = <<>>
  /\ acceptedBy' = "none"
  /\ last' = Event("playAgain", "local")
  /\ UNCHANGED <<category, difficulty, loading, error, inflight, now>>
  /\ UNCHANGED issued
\* ---------------------------------------------------------------- clock
Tick ==
  /\ now < MaxNow
  /\ now' = now + 1
  /\ UNCHANGED <<gameState, category, difficulty, response, selectedAnswer,
                 loading, error, sessionId, inflight, acceptedBy, last>>
  /\ UNCHANGED issued

\* ------------------------------------------------------ specification
Next ==
  \/ \E cat \in Categories : SetCategory(cat)
  \/ \E diff \in Difficulties : SetDifficulty(diff)
  \/ StartGame
  \/ StartGameDone
  \/ \E q \in Questions : \E k \in DOMAIN q.options : SelectAnswer(q.options[k])
  \/ SubmitAnswer
  \/ SubmitAnswerDone
  \/ NextQuestion
  \/ NextQuestionDone
  \/ PlayAgain
  \/ Tick

Spec == Init /\ [][Next]_vars

TypeOK ==
  /\ gameState \in GameStates
  /\ category \in Categories
  /\ difficulty \in Difficulties
  /\ response \in {Null} \cup {Some(r) : r \in TriviaResponses}
  /\ loading \in BOOLEAN
  /\ now \in 1..MaxNow

\* the agent answers every request sooner or later
FairSpec ==
  /\ Spec
  /\ WF_vars(StartGameDone)
  /\ WF_vars(SubmitAnswerDone)
  /\ WF_vars(NextQuestionDone)

\* the game over screen of a game that nextQuestion ended, the agent having
\* sent a final score with any percentage
GameOverInit ==
  /\ gameState = "game_over"
  /\ category = "Science"
  /\ difficulty = "Medium"
  /\ \E p \in 0..MaxPercent :
       response =
         Some([status |-> "success",
               result |-> Some([game_state |-> "game_over",
                                question |-> Null,
                                feedback |-> Null,
                                score |-> [correct |-> 1, total |-> 2,
                                           percentage |-> p],
                                commentary |-> "Nice"])])
  /\ selectedAnswer = Null
  /\ loading = FALSE
  /\ error = Null
  /\ sessionId = NewSessionId(1)
  /\ inflight = <<>>
  /\ now = 1
  /\ issued = NewSessionId(1)
  /\ acceptedBy = "nextQuestion"
  /\ last = [op |-> "nextQuestion", kind |-> "success", hadError |-> FALSE]

\* the program from the game over screen on
GameOverSpec == GameOverInit /\ [][Next]_vars

\* ------------------------------------------------------------ properties
\* a step that sends a request
Dispatches == Len(inflight') > Len(inflight)

\* a step that runs the continuation of a handler
Completes == Len(inflight') < Len(inflight)

\* C1: when startGame has completed with a response it accepted, the view
\* state is the game_state declared by that response, which is 'question'
\* or 'feedback', and is not 'setup'.
C1_StartGameLeavesSetup ==
  Did("startGame", "success") =>
    /\ gameState \in {"question", "feedback"}
    /\ gameState = Result.game_state

\* C2: at most one request to the agent is outstanding in every reachable
\* state, whatever the user clicks.
C2_AtMostOneRequest == Len(inflight) <= 1

C2_Witness ==
  /\ Len(inflight) = 1
  /\ inflight[1].op = "startGame"
  /\ inflight[1].message # StartMessage(category, difficulty)
  /\ loading

\* C3 as stated: whenever a response is held and the view state is not
\* 'setup', the view state is the game_state that response declares, and a
\* view state other than 'setup' is entered only with an agent response.
C3_ViewIsDeclaredState ==
  /\ [](HasResult /\ gameState # "setup" => gameState = Result.game_state)
  /\ [][gameState' # gameState /\ gameState' # "setup" =>
          Completes /\ response' # Null]_vars

\* C3 amended: whenever a response is held and the view state is not
\* 'setup', the view state is the declared game_state if startGame accepted
\* the response, 'feedback' if submitAnswer accepted it, and for nextQuestion
\* the declared game_state when that is 'question' or 'game_over' and
\* 'feedback' otherwise; a view state other than 'setup' is entered only when
\* a handler accepts an agent response.
C3_ViewFollowsAcceptingHandler ==
  /\ [](response # Null /\ gameState # "setup" =>
          CASE acceptedBy = "startGame" ->
                 HasResult /\ gameState = Result.game_state
            [] acceptedBy = "submitAnswer" -> gameState = "feedback"
            [] acceptedBy = "nextQuestion" ->
                 IF HasResult /\ Result.game_state \in {"question", "game_over"}
                 THEN gameState = Result.game_state
                 ELSE gameState = "feedback"
            [] OTHER -> FALSE)
  /\ [][gameState' # gameState /\ gameState' # "setup" =>
          Completes /\ response' # Null /\ last'.kind = "success"]_vars

C3_Witness ==
  /\ acceptedBy = "submitAnswer"
  /\ HasResult
  /\ Result.game_state = "game_over"
  /\ gameState = "feedback"

\* C4: submitAnswer called with no answer selected changes nothing: no
\* request is sent and view state, response, selection, busy flag, error
\* and session id stay as they are.
C4_SubmitWithoutSelectionIsNoOp ==
  [][SubmitAnswer /\ selectedAnswer = Null => UNCHANGED <<state, inflight>>]_vars

C4_Witness ==
  /\ Did("submitAnswer", "noop")
  /\ selectedAnswer = Null
  /\ gameState = "question"

\* C5 as stated: every step that enters 'question' leaves the selection
\* empty, and no step that enters or stays in 'feedback' changes the
\* selection.
C5_SelectionKeptInFeedback ==
  [][/\ gameState' = "question" /\ gameState # "question" => selectedAnswer' = Null
     /\ gameState' = "feedback" => selectedAnswer' = selectedAnswer]_vars

\* C5 amended: every step that enters 'question' leaves the selection empty;
\* a step that enters 'feedback' (startGame adopting 'feedback', submitAnswer
\* succeeding) does not change the selection; the only step that changes it
\* while the view state stays 'feedback' is nextQuestion sending its request,
\* which clears it, so that a failed nextQuestion is in 'feedback' with the
\* selection empty.
C5_SelectionClearedByNextQuestion ==
  /\ [][/\ gameState' = "question" /\ gameState # "question" => selectedAnswer' = Null
        /\ gameState' = "feedback" /\ gameState # "feedback" =>
             selectedAnswer' = selectedAnswer
        /\ gameState' = "feedback" /\ selectedAnswer' # selectedAnswer =>
             NextQuestion /\ selectedAnswer' = Null]_vars
  /\ [](Did("nextQuestion", "failure") =>
          gameState = "feedback" /\ selectedAnswer = Null)

C5_Witness ==
  /\ Did("nextQuestion", "dispatch")
  /\ acceptedBy = "submitAnswer"
  /\ gameState = "feedback"
  /\ selectedAnswer = Null

\* C6: after playAgain the view state is 'setup', no response is held, no
\* answer is selected and the session id is empty.
C6_PlayAgainResets ==
  Did("playAgain", "local") =>
    /\ gameState = "setup"
    /\ response = Null
    /\ selectedAnswer = Null
    /\ sessionId = <<>>

C6_Witness ==
  /\ Did("playAgain", "local")
  /\ gameState = "setup"
  /\ inflight = <<>>

\* C7: the continuation of a failed request leaves the view state, the held
\* response and the selection as they were and records a non-empty error:
\* startGame is still in 'setup', submitAnswer in 'question' with its answer
\* selected, nextQuestion in 'feedback'.
C7_FailureKeepsView ==
  [][Completes /\ last'.kind = "failure" =>
       /\ gameState' = gameState
       /\ response' = response
       /\ selectedAnswer' = selectedAnswer
       /\ Truthy(error')
       /\ last'.op = "startGame" => gameState' = "setup"
       /\ last'.op = "submitAnswer" =>
            gameState' = "question" /\ Truthy(selectedAnswer')
       /\ last'.op = "nextQuestion" => gameState' = "feedback"]_vars

C7_Witness ==
  /\ Did("submitAnswer", "failure")
  /\ gameState = "question"
  /\ error = Some("Failed to submit answer")
  /\ Truthy(selectedAnswer)

\* C8: every step that sends a request resets the error to none; an error
\* is recorded only by the continuation of a failed request, and after the
\* continuation of an accepted response no error is shown.
C8_ErrorClearedOnDispatch ==
  /\ [][Dispatches => error' = Null]_vars
  /\ [][error' # Null /\ error' # error => Completes /\ last'.kind = "failure"]_vars
  /\ [][Completes /\ last'.kind # "failure" => error' = Null]_vars
  /\ [](error # Null => ~loading)

C8_Witness ==
  /\ last.kind = "dispatch"
  /\ last.hadError
  /\ error = Null

\* C9: a request is sent only by the user's Start Game, Submit Answer or Next
\* Question, one request for one click, and the continuation of a failed
\* request leaves no request outstanding.
C9_NoAutomaticRetry ==
  /\ [][\/ inflight' = inflight
        \/ \E i \in DOMAIN inflight : inflight' = Remove(inflight, i)
        \/ /\ StartGame \/ SubmitAnswer \/ NextQuestion
           /\ Len(inflight') = Len(inflight) + 1]_vars
  /\ [](last.kind = "failure" => inflight = <<>>)

C9_Witness ==
  /\ Did("nextQuestion", "failure")
  /\ inflight = <<>>
  /\ error # Null

\* C10: the busy flag is set exactly while a request is outstanding: sending
\* a request sets it, every continuation clears it, and once set it is
\* cleared again when the agent answers.
C10_BusyWhileOutstanding ==
  /\ [](loading <=> inflight # <<>>)
  /\ [][Dispatches => loading']_vars
  /\ [][Completes => ~loading']_vars
  /\ (loading ~> ~loading)

C10_Witness ==
  /\ loading
  /\ Len(inflight) = 1
  /\ Did("submitAnswer", "dispatch")

\* a step in which some handler goes on with the answer a of the agent
DoneWith(a) ==
  StartGameDoneWith(a) \/ SubmitAnswerDoneWith(a) \/ NextQuestionDoneWith(a)

\* C11: every submitAnswer and nextQuestion request carries the session id
\* that the most recent startGame generated, which is not the empty one;
\* every startGame generates an id that no earlier startGame generated (the
\* clock never goes back, so it is enough to differ from the latest one), and
\* playAgain empties the session id.
C11_SessionOfTheGame ==
  /\ [](\A i \in DOMAIN inflight :
          inflight[i].op \in {"submitAnswer", "nextQuestion"} =>
            inflight[i].session_id = issued /\ inflight[i].session_id # <<>>)
  /\ [](\A i \in DOMAIN inflight :
          inflight[i].op = "startGame" => inflight[i].session_id = issued)
  /\ [][StartGame => NewSessionId(now) # issued]_vars
  /\ [][PlayAgain => sessionId' = <<>>]_vars

\* C12: when nextQuestion has completed with a response it accepted, the
\* view state is the game_state declared by that response, which is
\* 'question' or 'game_over'.
C12_NextQuestionAdoptsDeclared ==
  Did("nextQuestion", "success") =>
    /\ gameState \in {"question", "game_over"}
    /\ gameState = Result.game_state

\* C13 as stated: the score of a held response has percentage equal to
\* round(100 * correct / total), which no number equals when total is 0, and
\* the percentage is within 0..100.
C13_PercentageIsRounded ==
  HasResult =>
    LET score == Result.score
    IN /\ score.total # 0
       /\ score.percentage =
            (200 * score.correct + score.total) \div (2 * score.total)
       /\ score.percentage \in 0..100

\* C13 amended: after a handler has accepted a response that has a result,
\* the score held is the score of that response as the agent sent it,
\* correct, total and percentage alike; the handlers compute and check
\* nothing.
C13_ScoreIsTheAgentsScore ==
  [][Completes =>
       \A a \in AgentAnswers :
         Accepted(a) /\ a.response.result # Null /\ DoneWith(a) =>
           HasResult' /\ Result'.score = a.response.result[1].score]_vars

C13_Witness ==
  /\ last.kind = "success"
  /\ HasResult
  /\ Result.score = WrongVerdict.score

\* C14 as stated: from one response accepted by submitAnswer or nextQuestion
\* to the next, neither the correct count nor the total count of the held
\* score decreases.
C14_ScoreNeverDecreases ==
  [][/\ HasResult /\ HasResult'
     /\ response' # response
     /\ acceptedBy' \in {"submitAnswer", "nextQuestion"}
     => /\ Result'.score.correct >= Result.score.correct
        /\ Result'.score.total >= Result.score.total]_vars

\* C14 amended: the held response, and the score in it, changes only when a
\* handler accepts a response of the agent, which then is held as it was
\* sent, its score larger or smaller than before, or when playAgain clears
\* it; nothing else resets the score.
C14_ScoreChangesOnlyOnAccept ==
  [][response' # response =>
       \/ PlayAgain /\ response' = Null
       \/ /\ Completes
          /\ last'.kind \in {"success", "threw"}
          /\ \E a \in AgentAnswers :
               Accepted(a) /\ DoneWith(a) /\ response' = Some(a.response)]_vars

C14_Witness ==
  /\ Did("nextQuestion", "success")
  /\ gameState = "game_over"
  /\ Result.score.total = 0
  /\ Result.feedback = Null

\* C15: startGame for Science and Medium answered with 'question' and score
\* 0/0/0 shows the question screen with 0/0 and 0%; submitAnswer answered
\* with a correct feedback and score 1/1/100 shows the feedback screen in
\* green with 100%; nextQuestion answered with 'game_over' and score 1/1/100
\* shows the game over screen with 'Outstanding Performance!', 1/1 and 100%.
C15_Scenario ==
  [][LET zero == [correct |-> 0, total |-> 0, percentage |-> 0]
        full == [correct |-> 1, total |-> 1, percentage |-> 100]
        Sent(a) == a.response.result[1]
    IN  Completes =>
           \A a \in AgentAnswers :
             Accepted(a) /\ a.response.result # Null =>
               /\ ( /\ Sent(a).game_state = "question"
                    /\ Sent(a).score = zero
                    /\ \E i \in DOMAIN inflight :
                         inflight[i].message = StartMessage("Science", "Medium")
                    /\ StartGameDoneWith(a) )
                  => /\ Screen' = "question"
                     /\ ScoreText' = <<0, "/", 0>>
                     /\ PercentText' = <<0, "%">>
               /\ ( /\ Sent(a).feedback # Null
                    /\ Sent(a).feedback[1].is_correct
                    /\ Sent(a).score = full
                    /\ SubmitAnswerDoneWith(a) )
                  => /\ Screen' = "feedback"
                     /\ FeedbackColour' = "emerald"
                     /\ PercentText' = <<100, "%">>
               /\ ( /\ Sent(a).game_state = "game_over"
                    /\ Sent(a).score = full
                    /\ NextQuestionDoneWith(a) )
                  => /\ Screen' = "game_over"
                     /\ PerformanceMessage(Result'.score.percentage)
                          = "Outstanding Performance!"
                     /\ ScoreText' = <<1, "/", 1>>
                     /\ PercentText' = <<100, "%">>]_vars

C15_Witness ==
  /\ Screen = "game_over"
  /\ Did("nextQuestion", "success")
  /\ category = "Science"
  /\ difficulty = "Medium"
  /\ issued = NewSessionId(1)
  /\ ScoreText = <<1, "/", 1>>
  /\ PerformanceMessage(Result.score.percentage) = "Outstanding Performance!"

\* C16: the continuation of a failed request leaves the button that sent
\* it enabled, with the handler's own guard true, and leaves view state,
\* category, difficulty, held response, selection and session id as they
\* were; a retry of submitAnswer or nextQuestion then sends the very request
\* that failed, and a retry of startGame starts from the setup screen as the
\* first attempt did.
C16_FailureIsRecoverable ==
  [][Completes /\ last'.kind = "failure" =>
       /\ Len(inflight) = 1
       /\ LET failed == inflight[1] IN
            CASE failed.op = "startGame" ->
                   /\ last'.op = "startGame"
                   /\ StartGameEnabled'
              [] failed.op = "submitAnswer" ->
                   /\ last'.op = "submitAnswer"
                   /\ SubmitButtonEnabled'
                   /\ Request("submitAnswer", AnswerMessage(selectedAnswer'[1]),
                              sessionId') = failed
              [] failed.op = "nextQuestion" ->
                   /\ last'.op = "nextQuestion"
                   /\ NextQuestionEnabled'
                   /\ Request("nextQuestion", NextMessage, sessionId') = failed
       /\ error' # Null
       /\ UNCHANGED <<gameState, category, difficulty, response,
                      selectedAnswer, sessionId>>]_vars

C16_Witness ==
  /\ Did("startGame", "failure")
  /\ StartGameEnabled
  /\ sessionId # <<>>
  /\ error # Null

\* C17 as stated: playAgain puts view state, category, difficulty, held
\* response, selection, busy flag, error and session id back to their
\* initial values and sends no request.
C17_PlayAgainResetsEverything ==
  [][PlayAgain =>
       /\ gameState' = "setup"
       /\ category' = "Science"
       /\ difficulty' = "Medium"
       /\ response' = Null
       /\ selectedAnswer' = Null
       /\ loading' = FALSE
       /\ error' = Null
       /\ sessionId' = <<>>
       /\ inflight' = inflight]_vars

\* C17 amended: playAgain puts view state, held response, selection and
\* session id back to their initial values and sends no request; it leaves
\* category and difficulty as the user chose them last, and it leaves the
\* busy flag and the error alone, which are false and none whenever playAgain
\* can be called.
C17_PlayAgainKeepsChoice ==
  [][PlayAgain =>
       /\ gameState' = "setup"
       /\ response' = Null
       /\ selectedAnswer' = Null
       /\ sessionId' = <<>>
       /\ UNCHANGED <<category, difficulty, loading, error, inflight>>
       /\ loading' = FALSE
       /\ error' = Null
       /\ inflight' = <<>>]_vars

C17_Witness ==
  /\ Did("playAgain", "local")
  /\ gameState = "setup"
  /\ category = "History"
  /\ difficulty = "Hard"
  /\ sessionId = <<>>

\* C18: the continuation of submitAnswer that accepts a response sets the
\* view state to 'feedback' and holds that response in place of the earlier
\* one, whatever game_state it declares.
C18_SubmitAnswerShowsFeedback ==
  [][Completes =>
       \A a \in AgentAnswers :
         Accepted(a) /\ SubmitAnswerDoneWith(a) =>
           gameState' = "feedback" /\ response' = Some(a.response)]_vars

C18_Witness ==
  /\ Did("submitAnswer", "success")
  /\ gameState = "feedback"
  /\ HasResult
  /\ Result.game_state = "question"

\* C19: while a request is outstanding, a step that is not the continuation
\* of a handler changes none of view state, category, difficulty, held
\* response, selection and session id.
C19_NoChangeWhilePending ==
  [][inflight # <<>> /\ ~Completes =>
       UNCHANGED <<gameState, category, difficulty, response, selectedAnswer,
                   sessionId>>]_vars

\* C20 as stated: the view state becomes 'feedback' only in the continuation
\* of submitAnswer, and in view state 'question' the held response has no
\* feedback.
C20_FeedbackOnlyAfterSubmit ==
  /\ [][gameState' = "feedback" /\ gameState # "feedback" =>
          Completes /\ last'.op = "submitAnswer"]_vars
  /\ [](gameState = "question" /\ HasResult => Result.feedback = Null)

\* C20 amended: the view state becomes 'feedback' only in the continuation
\* of submitAnswer accepting a response or of startGame accepting a response
\* that declares 'feedback'; in view state 'question' the held response is
\* the one that brought the question, accepted by startGame or nextQuestion
\* and declaring 'question', never the response to an earlier answer, and
\* its feedback is whatever the agent put into it.
C20_FeedbackAfterSubmitOrStart ==
  /\ [][gameState' = "feedback" /\ gameState # "feedback" =>
          /\ Completes
          /\ last'.kind = "success"
          /\ \/ last'.op = "submitAnswer"
             \/ last'.op = "startGame" /\ Result'.game_state = "feedback"]_vars
  /\ [](gameState = "question" =>
          /\ HasResult
          /\ acceptedBy \in {"startGame", "nextQuestion"}
          /\ Result.game_state = "question")

C20_Witness ==
  /\ gameState = "feedback"
  /\ Did("startGame", "success")
  /\ acceptedBy = "startGame"
  /\ Result.game_state = "feedback"

\* C21: in view state 'question', 'feedback' or 'game_over' a response is
\* held, and in view state 'setup' no response is held.
C21_ResponseHeldIffPlaying ==
  /\ gameState \in {"question", "feedback", "game_over"} => response # Null
  /\ gameState = "setup" => response = Null

\* C22: a step of submitAnswer that sends a request is taken on the question
\* screen and sends the text of one of the options of the held question; in
\* view state 'question' the selection is empty or one of these options.
C22_AnswerIsAnOptionOfTheQuestion ==
  /\ [][Dispatches /\ last'.op = "submitAnswer" =>
          /\ Screen = "question"
          /\ gameState = "question"
          /\ \E k \in DOMAIN Options :
               inflight'[Len(inflight')] =
                 Request("submitAnswer", AnswerMessage(Options[k]), sessionId)]_vars
  /\ [](gameState = "question" =>
          \/ selectedAnswer = Null
          \/ /\ HasResult
             /\ \E k \in DOMAIN Options : Options[k] = selectedAnswer[1])

C22_Witness ==
  /\ Did("submitAnswer", "dispatch")
  /\ gameState = "question"
  /\ acceptedBy = "nextQuestion"
  /\ Len(inflight) = 1
  /\ inflight[1].message = AnswerMessage(Options[1])

\* C23: startGame runs only in view state 'setup', submitAnswer only in
\* 'question', nextQuestion only in 'feedback' and playAgain only in
\* 'game_over', each from the button of its screen, and each continuation
\* runs in the view state its handler was called in; the view state becomes
\* 'game_over' only when nextQuestion accepts a response in 'feedback', and
\* it becomes 'setup' again only by playAgain in 'game_over'.
C23_ScreenFlow ==
  /\ [][/\ StartGame => gameState = "setup" /\ Screen = "setup"
        /\ SubmitAnswer => gameState = "question" /\ Screen = "question"
        /\ NextQuestion => gameState = "feedback" /\ Screen = "feedback"
        /\ PlayAgain => gameState = "game_over" /\ Screen = "game_over"
        /\ Completes /\ last'.op = "startGame" => gameState = "setup"
        /\ Completes /\ last'.op = "submitAnswer" => gameState = "question"
        /\ Completes /\ last'.op = "nextQuestion" => gameState = "feedback"]_vars
  /\ [][gameState' = "game_over" /\ gameState # "game_over" =>
          /\ gameState = "feedback"
          /\ Completes
          /\ last'.op = "nextQuestion"
          /\ last'.kind = "success"]_vars
  /\ [][gameState' = "setup" /\ gameState # "setup" =>
          PlayAgain /\ gameState = "game_over"]_vars

C23_Witness ==
  /\ Did("playAgain", "local")
  /\ gameState = "setup"
  /\ issued # <<>>
  /\ response = Null

\* C24: in every reachable state with no request outstanding some button
\* that sends a request or returns to setup is enabled, or can be enabled by
\* selecting an answer: Start Game, Submit Answer (with a selection made or
\* an option to select that makes one), Next Question or Play Again.
C24_NoDeadEnd ==
  inflight = <<>> =>
    \/ StartGameEnabled
    \/ SubmitButtonEnabled
    \/ /\ AnswerOptionEnabled
       /\ \E k \in DOMAIN Options : Truthy(Some(Options[k]))
    \/ NextQuestionEnabled
    \/ PlayAgainEnabled

\* C25: on the game over screen the performance message is 'Outstanding
\* Performance!' for a percentage of 80 or more, 'Good Job!' from 60 to 79,
\* 'Nice Try!' from 40 to 59 and 'Keep Practicing!' below 40, and no other
\* message is shown for any percentage.
C25_PerformanceMessageByPercentage ==
  Screen = "game_over" =>
    LET p == Result.score.percentage
        shown == PerformanceMessage(p)
    IN  /\ (shown = "Outstanding Performance!") <=> (p >= 80)
        /\ (shown = "Good Job!") <=> (60 <= p /\ p < 80)
        /\ (shown = "Nice Try!") <=> (40 <= p /\ p < 60)
        /\ (shown = "Keep Practicing!") <=> (p < 40)
        /\ shown \in {"Outstanding Performance!", "Good Job!", "Nice Try!",
                      "Keep Practicing!"}

C25_Witness ==
  /\ Screen = "game_over"
  /\ Result.score.percentage = 60
  /\ PerformanceMessage(Result.score.percentage) = "Good Job!"

\* C26: the two Home variants of the file are the same state machine. They
\* start in the same state; in every reachable state they show the same
\* screen and options and enable the same buttons; from every reachable
\* state a step is the step of a handler of the first variant on a user
\* event exactly if it is the step of the same handler of the second variant
\* on that event; and the continuation of a handler of the first variant
\* with an agent answer is the continuation of the same handler of the
\* second variant with that answer (only the answers the step can be the
\* continuation of are looked at: an accepted answer is held after the
\* step). Started together and fed the same events and answers, the two
\* therefore stay in equal states (view state, held response, selection,
\* busy flag, error) and send equal requests.
C26_VariantsAgree ==
  /\ (Init <=> SecondInit)
  /\ [](/\ SecondScreen = Screen
        /\ HasResult => SecondOptions = Options
        /\ SecondStartGameEnabled = StartGameEnabled
        /\ SecondAnswerOptionEnabled = AnswerOptionEnabled
        /\ SecondSubmitAnswerEnabled = SubmitAnswerEnabled
        /\ SecondSubmitButtonEnabled = SubmitButtonEnabled
        /\ SecondNextQuestionEnabled = NextQuestionEnabled
        /\ SecondPlayAgainEnabled = PlayAgainEnabled)
  /\ [][/\ \A cat \in Categories : SetCategory(cat) <=> SecondSetCategory(cat)
        /\ \A diff \in Difficulties :
             SetDifficulty(diff) <=> SecondSetDifficulty(diff)
        /\ \A q \in Questions : \A k \in DOMAIN q.options :
             SelectAnswer(q.options[k]) <=> SecondSelectAnswer(q.options[k])
        /\ StartGame <=> SecondStartGame
        /\ SubmitAnswer <=> SecondSubmitAnswer
        /\ NextQuestion <=> SecondNextQuestion
        /\ PlayAgain <=> SecondPlayAgain
        /\ Completes =>
             \A a \in AgentAnswers :
               (Accepted(a) => response' = Some(a.response)) =>
                 /\ StartGameDoneWith(a) => SecondStartGameDoneWith(a)
                 /\ SubmitAnswerDoneWith(a) => SecondSubmitAnswerDoneWith(a)
                 /\ NextQuestionDoneWith(a) => SecondNextQuestionDoneWith(a)]_vars

C26_Witness ==
  /\ Did("nextQuestion", "success")
  /\ SecondScreen = "game_over"
  /\ SecondPlayAgainEnabled
  /\ SecondResult.score.total = 1

====
